---------------------------- MODULE Spec2Model ----------------------------
(***************************************************************************)
(* Model of scrape_wikipedia_events.py: the event extractor                *)
(* (parse_events_from_month_page) and its driver (scrape_all_events).      *)
(*                                                                         *)
(* A string is a sequence of characters; a character is a one-code-point   *)
(* atom ("ndash" is U+2013, "mdash" is U+2014, "\n" a line feed).          *)
(* A parsed element (the scope of an entry) is the sequence of its         *)
(* children; a child is a text node [kind |-> "text", text], a link        *)
(* [kind |-> "a", href, text] or another element [kind |-> "tag", text]    *)
(* whose text is what get_text() returns for it.  Two children are equal   *)
(* as records exactly when BeautifulSoup's == holds for them (same name,   *)
(* attributes and contents); the identity of a node is its position.       *)
(* Not modelled: comment nodes (which are str instances too), nested       *)
(* elements that hold year links of their own, digits and letters outside  *)
(* ASCII, and a change of the calendar year while the program runs.        *)
(***************************************************************************)
EXTENDS Integers, Sequences, FiniteSets, TLC

----------------------------------------------------------------------------
(* Characters and the str / re primitives the program uses                 *)

\* whitespace, as matched by \s and removed by str.strip()
IsSpace(c) == c \in {" ", "\n"}

Digits == <<"0", "1", "2", "3", "4", "5", "6", "7", "8", "9">>

IsDigit(c) == \E k \in 1..10 : Digits[k] = c

DigitVal(c) == (CHOOSE k \in 1..10 : Digits[k] = c) - 1

\* the character class [ndash mdash hyphen] of the separator pattern
DashChars == {"ndash", "mdash", "-"}

\* the argument of rstrip: colon, en-dash, hyphen
RstripChars == {":", "ndash", "-"}

UpperLetters ==
    <<"A", "B", "C", "D", "E", "F", "G", "H", "I", "J", "K", "L", "M",
      "N", "O", "P", "Q", "R", "S", "T", "U", "V", "W", "X", "Y", "Z">>

LowerLetters ==
    <<"a", "b", "c", "d", "e", "f", "g", "h", "i", "j", "k", "l", "m",
      "n", "o", "p", "q", "r", "s", "t", "u", "v", "w", "x", "y", "z">>

UpperSet == {UpperLetters[k] : k \in 1..Len(UpperLetters)}

LowerOf ==
    [c \in UpperSet |-> LowerLetters[CHOOSE k \in 1..Len(UpperLetters) : UpperLetters[k] = c]]

\* case folding of re.IGNORECASE on the Latin letters
ToLower(c) == IF c \in UpperSet THEN LowerOf[c] ELSE c

\* the string with its letters folded
LowerStr(text) == [k \in 1..Len(text) |-> ToLower(text[k])]

\* the literal pat is in text at position pos
ExactAt(pat, text, pos) ==
    /\ pos >= 1
    /\ pos + Len(pat) - 1 <= Len(text)
    /\ \A k \in 1..Len(pat) : text[pos + k - 1] = pat[k]

\* the literal pat matches text at position pos (ic: under re.IGNORECASE, that
\* is, on the folded strings)
LitAt(pat, text, pos, ic) ==
    IF ic THEN ExactAt(LowerStr(pat), LowerStr(text), pos)
    ELSE ExactAt(pat, text, pos)

\* re.search of a literal pattern
SearchExact(pat, text) ==
    \E pos \in 1..(Len(text) - Len(pat) + 1) : ExactAt(pat, text, pos)

\* the position after the greedy match of \s* that starts at pos
RECURSIVE SkipSpaces(_, _)
SkipSpaces(text, pos) ==
    IF pos <= Len(text) /\ IsSpace(text[pos])
    THEN SkipSpaces(text, pos + 1)
    ELSE pos

\* text[pos..] (the empty string from Len(text)+1 on)
From(text, pos) == SubSeq(text, pos, Len(text))

RECURSIVE lstrip(_)
lstrip(text) ==
    IF text # <<>> /\ IsSpace(Head(text)) THEN lstrip(Tail(text)) ELSE text

RECURSIVE rstrip(_)
rstrip(text) ==
    IF text # <<>> /\ IsSpace(text[Len(text)])
    THEN rstrip(SubSeq(text, 1, Len(text) - 1))
    ELSE text

\* str.strip()
strip(text) == rstrip(lstrip(text))

\* str.rstrip(chars)
RECURSIVE rstrip_chars(_, _)
rstrip_chars(text, chars) ==
    IF text # <<>> /\ text[Len(text)] \in chars
    THEN rstrip_chars(SubSeq(text, 1, Len(text) - 1), chars)
    ELSE text

\* int() of a string of decimal digits
RECURSIVE ToInt(_)
ToInt(ds) ==
    IF ds = <<>> THEN 0
    ELSE 10 * ToInt(SubSeq(ds, 1, Len(ds) - 1)) + DigitVal(ds[Len(ds)])

\* the decimal digits of a natural number
RECURSIVE ToDigits(_)
ToDigits(n) ==
    IF n < 10 THEN <<Digits[n + 1]>>
    ELSE ToDigits(n \div 10) \o <<Digits[(n % 10) + 1]>>

\* the format specification :02d
Fmt02d(n) == IF n < 10 THEN <<"0">> \o ToDigits(n) ELSE ToDigits(n)

----------------------------------------------------------------------------
(* The helper functions of the program                                     *)

recurring_patterns ==
    << <<"I", "n", "d", "e", "p", "e", "n", "d", "e", "n", "c", "e", " ", "D", "a", "y">>,
       <<"N", "a", "t", "i", "o", "n", "a", "l", " ", "D", "a", "y">>,
       <<"P", "u", "b", "l", "i", "c", " ", "D", "o", "m", "a", "i", "n", " ", "D", "a", "y">>,
       <<"S", "o", "l", "e", "m", "n", "i", "t", "y">>,
       <<"H", "o", "l", "i", "d", "a", "y">>,
       <<"O", "b", "s", "e", "r", "v", "a", "n", "c", "e">>,
       <<"D", "a", "y", " ", "o", "f">>,
       <<"F", "e", "a", "s", "t", " ", "o", "f">>,
       <<"M", "e", "m", "o", "r", "i", "a", "l", " ", "D", "a", "y">>,
       <<"R", "e", "m", "e", "m", "b", "r", "a", "n", "c", "e", " ", "D", "a", "y">> >>

\* the patterns as re.IGNORECASE compares them
FoldedPatterns == [p \in 1..Len(recurring_patterns) |-> LowerStr(recurring_patterns[p])]

RecurringIn(folded) ==
    \E p \in 1..Len(FoldedPatterns) : SearchExact(FoldedPatterns[p], folded)

\* the search without re.IGNORECASE
is_recurring_event_cased(text) ==
    \E p \in 1..Len(recurring_patterns) : SearchExact(recurring_patterns[p], text)

\* for pattern in recurring_patterns: if re.search(pattern, text, re.IGNORECASE)
is_recurring_event(text) == RecurringIn(LowerStr(text))

\* the pattern \(L\.\s*\d{3,4}\) matches text at pos, L the letter b or d
MarkerAt(letter, text, pos) ==
    /\ LitAt(<<"(", letter, ".">>, text, pos, FALSE)
    /\ LET q == SkipSpaces(text, pos + 3)
       IN  \E n \in {3, 4} :
               /\ q + n <= Len(text)
               /\ \A k \in 0..(n - 1) : IsDigit(text[q + k])
               /\ text[q + n] = ")"

\* the check without its death pattern
is_birth_only(text) == \E pos \in 1..Len(text) : MarkerAt("b", text, pos)

\* is_birth_or_death applied to the text of the element
is_birth_or_death(text) ==
    \/ \E pos \in 1..Len(text) : MarkerAt("b", text, pos)
    \/ \E pos \in 1..Len(text) : MarkerAt("d", text, pos)

WikiPrefix == <<"/", "w", "i", "k", "i", "/">>

\* href matches ^/wiki/\d{3,4}$ (the filter of find_all)
IsYearHref(href) ==
    /\ Len(href) \in {Len(WikiPrefix) + 3, Len(WikiPrefix) + 4}
    /\ LitAt(WikiPrefix, href, 1, FALSE)
    /\ \A k \in (Len(WikiPrefix) + 1)..Len(href) : IsDigit(href[k])

\* extract_year_from_link: group 1 of /wiki/(\d{3,4})$, or None (<<>>)
extract_year_from_link(href) ==
    IF IsYearHref(href) THEN From(href, Len(WikiPrefix) + 1) ELSE <<>>

Pictured == <<"(", "p", "i", "c", "t", "u", "r", "e", "d", ")">>

\* \(pictured\) under re.IGNORECASE matches text at position pos
PicturedAt(text, pos) ==
    /\ pos + Len(Pictured) - 1 <= Len(text)
    /\ \A k \in 1..Len(Pictured) : ToLower(text[pos + k - 1]) = ToLower(Pictured[k])

\* re.sub(r'\s*\(pictured\)', '', text, flags=re.IGNORECASE) from pos on:
\* one left-to-right pass over non-overlapping matches
RECURSIVE SubPictured(_, _)
SubPictured(text, pos) ==
    IF pos > Len(text) THEN <<>>
    ELSE LET q == SkipSpaces(text, pos)
         IN  IF PicturedAt(text, q)
             THEN SubPictured(text, q + Len(Pictured))
             ELSE <<text[pos]>> \o SubPictured(text, pos + 1)

remove_pictured_phrase(text) == SubPictured(text, 1)


----------------------------------------------------------------------------
(* The parsed document                                                     *)

Text(s) == [kind |-> "text", href |-> <<>>, text |-> s]
Link(h, s) == [kind |-> "a", href |-> h, text |-> s]
Tag(s) == [kind |-> "tag", href |-> <<>>, text |-> s]

\* child.get_text(): a text node's string, an element's nested text
get_text(child) == child.text

\* parent.get_text(): the texts of the children, in document order
RECURSIVE ScopeText(_)
ScopeText(contents) ==
    IF contents = <<>> THEN <<>>
    ELSE get_text(Head(contents)) \o ScopeText(Tail(contents))

\* what requests.get and raise_for_status give for the page's URL: "ok" (a
\* response with a body), an HTTPError with status 404 or with another status,
\* or another RequestException
ErrorKinds == {"404", "http_error", "network_error"}

\* None
NoneHtml ==
    [raised |-> FALSE, none |-> TRUE, empty |-> TRUE, has_content |-> FALSE, scopes |-> <<>>]

\* no value: the exception leaves fetch_wikipedia_page
RaisedHtml ==
    [raised |-> TRUE, none |-> TRUE, empty |-> TRUE, has_content |-> FALSE, scopes |-> <<>>]

\* a body that is the empty string
EmptyHtml ==
    [raised |-> FALSE, none |-> FALSE, empty |-> TRUE, has_content |-> FALSE, scopes |-> <<>>]

\* a body without the div mw-content-text
NoContentHtml ==
    [raised |-> FALSE, none |-> FALSE, empty |-> FALSE, has_content |-> FALSE, scopes |-> <<>>]

\* a body whose content region holds these elements
PageHtml(scopes) ==
    [raised |-> FALSE, none |-> FALSE, empty |-> FALSE, has_content |-> TRUE, scopes |-> scopes]

\* fetch_wikipedia_page without its except requests.RequestException clause
fetch_without_last_except(resp) ==
    IF resp.kind = "ok" THEN resp.html
    ELSE IF resp.kind \in {"404", "http_error"} THEN NoneHtml
    ELSE RaisedHtml

\* fetch_wikipedia_page: response.text; None from except requests.HTTPError
\* (404 or not) and from except requests.RequestException; any other
\* exception leaves the function
fetch_wikipedia_page(resp) ==
    IF resp.kind = "ok" THEN resp.html
    ELSE IF resp.kind \in {"404", "http_error"} THEN NoneHtml
    ELSE IF resp.kind = "network_error" THEN NoneHtml
    ELSE RaisedHtml

\* if not html_content / if not content: the page gives no events
PageUnavailable(html) == html.none \/ html.empty \/ ~html.has_content

\* the positions <<scope, child>> of the children of scope s from child c on
\* that find_all('a', href=^/wiki/\d{3,4}$) returns
RECURSIVE LinksInScope(_, _, _)
LinksInScope(scopes, s, c) ==
    IF c > Len(scopes[s]) THEN <<>>
    ELSE (IF scopes[s][c].kind = "a" /\ IsYearHref(scopes[s][c].href)
          THEN << <<s, c>> >> ELSE <<>>)
         \o LinksInScope(scopes, s, c + 1)

\* find_all over the content region, in document order
RECURSIVE FindAllYearLinks(_, _)
FindAllYearLinks(scopes, s) ==
    IF s > Len(scopes) THEN <<>>
    ELSE LinksInScope(scopes, s, 1) \o FindAllYearLinks(scopes, s + 1)

\* year_int > current_year or year_int < 1 (int() cannot fail on \d{3,4})
YearRejected(year, cy) == ToInt(year) > cy \/ ToInt(year) < 1

\* for i, child in enumerate(contents): if child == year_link: the first child
\* that is == to the link (BeautifulSoup's structural ==), or -1 (0 here)
RECURSIVE IndexOfEqual(_, _, _)
IndexOfEqual(contents, year_link, k) ==
    IF k > Len(contents) THEN 0
    ELSE IF contents[k] = year_link THEN k
    ELSE IndexOfEqual(contents, year_link, k + 1)

FindYearLinkIndex(contents, year_link) == IndexOfEqual(contents, year_link, 1)

\* re.search(r'^\s*[dash]\s*', child)
StartsWithDash(s) ==
    LET q == SkipSpaces(s, 1) IN q <= Len(s) /\ s[q] \in DashChars

\* re.sub(r'^\s*[dash]\s*', '', child), for a child the pattern matches
TextAfterDash(s) == From(s, SkipSpaces(s, SkipSpaces(s, 1) + 1))

\* one iteration of the loop over the siblings after the year link
ScanChild(fd, et, child) ==
    IF ~fd
    THEN IF child.kind = "text" /\ StartsWithDash(child.text)
         THEN [found_dash |-> TRUE, event_text |-> et \o TextAfterDash(child.text)]
         ELSE [found_dash |-> fd, event_text |-> et]
    ELSE [found_dash |-> fd, event_text |-> et \o get_text(child)]

\* event_text.strip(), remove_pictured_phrase, rstrip(':--').strip()
CleanEventText(et) ==
    strip(rstrip_chars(remove_pictured_phrase(strip(et)), RstripChars))

MinNameLen == 10

\* f"{year}-{month:02d}-{day:02d}"
DateStr(year, m, d) == year \o <<"-">> \o Fmt02d(m) \o <<"-">> \o Fmt02d(d)

\* the entry of one year link, lines 128-172: 0 when the link is skipped
\* (year missing or rejected, birth/death entry, recurring event, link not found
\* among the parent's children), else the index found for the link
EntryStart(scopes, pos, cy) ==
    LET parent == scopes[pos[1]]
        link == parent[pos[2]]
        yr == extract_year_from_link(link.href)
    IN  IF yr = <<>> THEN 0
        ELSE IF YearRejected(yr, cy) THEN 0
        ELSE IF is_birth_or_death(ScopeText(parent)) THEN 0
        ELSE IF is_recurring_event(ScopeText(parent)) THEN 0
        ELSE FindYearLinkIndex(parent, link)

\* lines 196-217: the records an entry appends once its siblings are scanned
EntryRecords(fd, et, yr, m, d) ==
    IF ~fd THEN <<>>
    ELSE LET name == CleanEventText(et)
         IN  IF Len(name) < MinNameLen THEN <<>>
             ELSE <<[name |-> name, date |-> DateStr(yr, m, d)]>>

\* the loop over the siblings from child k on, run to its end
RECURSIVE ScanFrom(_, _, _, _)
ScanFrom(contents, k, fd, et) ==
    IF k > Len(contents) THEN [found_dash |-> fd, event_text |-> et]
    ELSE LET st == ScanChild(fd, et, contents[k])
         IN  ScanFrom(contents, k + 1, st.found_dash, st.event_text)

\* one iteration of the loop over year_links, lines 128-217
LinkRecords(scopes, pos, m, d, cy) ==
    LET idx == EntryStart(scopes, pos, cy)
    IN  IF idx = 0 THEN <<>>
        ELSE LET st == ScanFrom(scopes[pos[1]], idx + 1, FALSE, <<>>)
             IN  EntryRecords(st.found_dash, st.event_text,
                              extract_year_from_link(scopes[pos[1]][pos[2]].href), m, d)

RECURSIVE EventsOfLinks(_, _, _, _, _, _)
EventsOfLinks(scopes, links, k, m, d, cy) ==
    IF k > Len(links) THEN <<>>
    ELSE LinkRecords(scopes, links[k], m, d, cy)
         \o EventsOfLinks(scopes, links, k + 1, m, d, cy)

\* parse_events_from_month_page as one step: what a call returns
parse_events_from_month_page(resp, m, d, cy) ==
    LET html == fetch_wikipedia_page(resp)
    IN  IF PageUnavailable(html) THEN <<>>
        ELSE EventsOfLinks(html.scopes, FindAllYearLinks(html.scopes, 1), 1, m, d, cy)

----------------------------------------------------------------------------
(* Inputs: the pages the extractor is run on                               *)

RECURSIVE Flatten(_)
Flatten(ss) == IF ss = <<>> THEN <<>> ELSE Head(ss) \o Flatten(Tail(ss))

SeqsUpTo(S, n) == UNION {[1..k -> S] : k \in 1..n}

Ok(scopes) == [kind |-> "ok", html |-> PageHtml(scopes)]

H1969 == <<"/", "w", "i", "k", "i", "/", "1", "9", "6", "9">>
Y1969 == Link(H1969, <<"1", "9", "6", "9">>)
Y1970 == Link(<<"/", "w", "i", "k", "i", "/", "1", "9", "7", "0">>, <<"1", "9", "7", "0">>)

Apollo == <<"A", "p", "o", "l", "l", "o", " ", "1", "1", " ", "l", "a", "n", "d", "e", "d">>
EnDashSep == <<" ", "ndash", " ">>

\* the children a scope of the scan family is made of
ScanPool ==
    { Y1969, Y1970,
      Text(EnDashSep \o Apollo),
      Text(<<"mdash", " ", "M", "o", "o", "n", " ", "l", "a", "n", "d", "i", "n", "g", ";", " ">>),
      Text(<<"-", " ", "E", "a", "g", "l", "e", " ", "h", "a", "s", " ", "l", "a", "n", "d", "e", "d">>),
      Text(<<"a", " ", "-", " ", "b">>),
      Tag(<<"ndash", " ", "n", "e", "s", "t", "e", "d", " ", "d", "a", "s", "h">>),
      Tag(<<"E", "a", "g", "l", "e">>) }

MaxChildren == 3

ScanPages == {Ok(<<c>>) : c \in SeqsUpTo(ScanPool, MaxChildren)}

\* the pieces a description of the normalization family is made of
NormFrags ==
    { Apollo,
      <<"(", "P", "i", "c", "t", "u", "r", "e", "d", ")">>,
      <<"(", "p", "i", "c">>, <<"t", "u", "r", "e", "d", ")">>,
      <<" ">>, <<":">>, <<"ndash">>, <<"mdash">>, <<"-">> }

MaxFrags == 3

NormPages ==
    {Ok(<< <<Y1969, Text(EnDashSep \o Flatten(f))>> >>) : f \in SeqsUpTo(NormFrags, MaxFrags)}

ToUpper(c) ==
    IF \E k \in 1..Len(LowerLetters) : LowerLetters[k] = c
    THEN UpperLetters[CHOOSE k \in 1..Len(LowerLetters) : LowerLetters[k] = c]
    ELSE c

UpperStr(text) == [k \in 1..Len(text) |-> ToUpper(text[k])]

\* each recurring-event phrase as written, in lower case and in upper case
PhraseFrags ==
    UNION {{recurring_patterns[p], LowerStr(recurring_patterns[p]),
            UpperStr(recurring_patterns[p])} : p \in 1..Len(recurring_patterns)}

\* birth and death markers
MarkerFrags ==
    { <<"(", "b", ".", " ", "1", "9", "2", "3", ")">>,
      <<"(", "d", ".", " ", "2", "0", "0", "1", ")">>,
      <<"(", "b", ".", " ", "4", "7", "6", ")">>,
      <<"(", "d", ".", "1", "0", "6", "6", ")">>,
      <<"(", "b", ".", " ", " ", "1", "9", "2", "3", ")">> }

\* texts that are neither a phrase nor a marker
OtherFrags ==
    { <<"(", "B", ".", " ", "1", "9", "2", "3", ")">>,
      <<"(", "b", ".", " ", "1", "9", ")">>,
      <<"(", "d", ".", " ", "1", "2", "3", "4", "5", ")">>,
      <<"(", "c", ".", " ", "1", "9", "2", "3", ")">>,
      <<"b", ".", " ", "1", "9", "2", "3">>,
      <<"H", "o", "l", "i", "d", "y">>,
      <<"D", "a", "y", " ", " ", "o", "f">>,
      <<"F", "e", "a", "s", "t", "o", "f">> }

\* the children seq with child c put in after the first k of them
InsertAt(seq, k, c) == SubSeq(seq, 1, k) \o <<c>> \o SubSeq(seq, k + 1, Len(seq))

PlainEntry == <<Y1969, Text(EnDashSep \o Apollo)>>

\* a well-formed entry with a fragment before the link, before the dash or
\* after the description, as a text node or inside a nested element; and a
\* phrase that only the text of two neighbouring nodes spells
FilterPages ==
    {Ok(<<InsertAt(PlainEntry, k, c)>>) :
        k \in 0..2,
        c \in UNION {{Text(f), Tag(f)} : f \in PhraseFrags \cup MarkerFrags \cup OtherFrags}}
    \cup {Ok(<<PlainEntry \o <<Text(<<" ", "H", "o", "l", "i">>), Tag(<<"d", "a", "y", " ">>)>> >>)}

W(target) == WikiPrefix \o target

DateHrefs ==
    { H1969,
      W(<<"4", "7", "6">>), W(<<"0", "9", "9", "9">>), W(<<"0", "0", "0">>),
      W(<<"0", "0", "1">>), W(<<"2", "0", "2", "6">>), W(<<"2", "0", "2", "7">>),
      W(<<"9", "9", "9", "9">>), W(<<"1", "2", "3", "4", "5">>), W(<<"1", "9">>),
      W(<<"M", "o", "o", "n">>), W(<<"1", "9", "6", "9", "a">>) }

DatePages ==
    {Ok(<< <<Link(h, <<"M", "o", "o", "n">>), Text(EnDashSep \o Apollo)>> >>) : h \in DateHrefs}

\* pages of several elements, with and without year links
SomeScopes ==
    { PlainEntry,
      <<Y1970, Text(<<"mdash", " ", "M", "o", "o", "n", " ", "l", "a", "n", "d", "i", "n", "g", ";", " ">>)>>,
      <<Text(<<" ", "n", "o", " ", "d", "a", "s", "h", " ", "h", "e", "r", "e", " ">>), Y1969>>,
      <<Tag(<<"E", "a", "g", "l", "e">>)>>,
      PlainEntry \o PlainEntry }

MultiPages ==
    {Ok(<<a, b>>) : a \in SomeScopes, b \in SomeScopes} \cup {Ok(<<>>)}

\* pages that are not available
BadResponses ==
    {[kind |-> k, html |-> NoneHtml] : k \in ErrorKinds}
    \cup {[kind |-> "ok", html |-> EmptyHtml], [kind |-> "ok", html |-> NoContentHtml]}

\* the (month, day) the driver passes in and the calendar year of the clock
Dates == {<<1, 1>>, <<2, 29>>, <<7, 20>>, <<10, 5>>, <<12, 31>>}
CurrentYears == {1969, 2026}
DefaultDate == <<7, 20>>
LatestYear == CHOOSE y \in CurrentYears : \A z \in CurrentYears : z <= y

Input(r, md, cy) == [response |-> r, month |-> md[1], day |-> md[2], current_year |-> cy]

Inputs ==
    {Input(r, DefaultDate, LatestYear) :
        r \in ScanPages \cup NormPages \cup FilterPages \cup MultiPages \cup BadResponses}
    \cup {Input(r, md, cy) : r \in DatePages, md \in Dates, cy \in CurrentYears}

----------------------------------------------------------------------------
(* The extractor as a state machine: parse_events_from_month_page, called  *)
(* twice on the same page                                                  *)

VARIABLES
    response,        \* what the site answers for the URL of the page asked for
    month, day,      \* the arguments of parse_events_from_month_page
    current_year,    \* datetime.now().year
    pc,              \* where the call stands
    run,             \* 1 in the first call, 2 in the second
    first_events,    \* what the first call returned
    year_links,      \* the positions find_all returned
    link_i,          \* the number of year links taken from year_links
    year,            \* extract_year_from_link(year_link)
    year_link_index, \* the index found for year_link in contents
    i,               \* the index of the sibling the scan looks at next
    found_dash,
    event_text,
    events,
    origin,          \* history: the position of the link of each record
    cursor,          \* driver, history: the number of pages asked for and parsed
    site,            \* driver: the answers of the site, in the order it gives them
    all_events       \* driver: the accumulated collection

xvars == <<pc, run, first_events, year_links, link_i, year, year_link_index,
           i, found_dash, event_text, events, origin>>
xvarsNoPc == <<run, first_events, year_links, link_i, year, year_link_index,
               i, found_dash, event_text, events, origin>>
ivars == <<response, month, day, current_year>>
dvars == <<cursor, site, all_events>>
vars == <<ivars, xvars, dvars>>

Scopes == response.html.scopes

\* the element at a position find_all returned
LinkAt(pos) == Scopes[pos[1]][pos[2]]

\* contents = list(parent.children) of the link taken last
Contents == Scopes[year_links[link_i][1]]

Init ==
    /\ \E inp \in Inputs :
          /\ response = inp.response
          /\ month = inp.month
          /\ day = inp.day
          /\ current_year = inp.current_year
    /\ pc = "start"
    /\ run = 1
    /\ first_events = <<>>
    /\ year_links = <<>>
    /\ link_i = 0
    /\ year = <<>>
    /\ year_link_index = 0
    /\ i = 0
    /\ found_dash = FALSE
    /\ event_text = <<>>
    /\ events = <<>>
    /\ origin = <<>>
    /\ cursor = 0
    /\ site = <<>>
    /\ all_events = <<>>

\* the call with events kept from the call before instead of events = []
CallKeepingEvents ==
    /\ pc = "start"
    /\ LET html == fetch_wikipedia_page(response)
       IN  IF html.raised
           THEN /\ pc' = "raised"
                /\ year_links' = <<>>
           ELSE IF PageUnavailable(html)
           THEN /\ pc' = "returned"
                /\ year_links' = <<>>
           ELSE /\ pc' = "loop"
                /\ year_links' = FindAllYearLinks(html.scopes, 1)
    /\ link_i' = 0
    /\ UNCHANGED <<ivars, dvars, run, first_events, year, year_link_index, i,
                   found_dash, event_text, events, origin>>

\* lines 101-125: fetch the page, find the content region and the year links
Call ==
    /\ pc = "start"
    /\ LET html == fetch_wikipedia_page(response)
       IN  IF html.raised
           THEN /\ pc' = "raised"
                /\ year_links' = <<>>
           ELSE IF PageUnavailable(html)
           THEN /\ pc' = "returned"
                /\ year_links' = <<>>
           ELSE /\ pc' = "loop"
                /\ year_links' = FindAllYearLinks(html.scopes, 1)
    /\ events' = <<>>
    /\ origin' = <<>>
    /\ link_i' = 0
    /\ UNCHANGED <<ivars, dvars, run, first_events, year, year_link_index, i,
                   found_dash, event_text>>

\* lines 127-175: take the next year link; skip it or start the scan after it
NextLink ==
    /\ pc = "loop"
    /\ link_i < Len(year_links)
    /\ link_i' = link_i + 1
    /\ \E idx \in {EntryStart(Scopes, year_links[link_i + 1], current_year)} :
           /\ year' = extract_year_from_link(LinkAt(year_links[link_i + 1]).href)
           /\ IF idx = 0
              THEN /\ pc' = "loop"
                   /\ UNCHANGED <<year_link_index, i, found_dash, event_text>>
              ELSE /\ pc' = "scan"
                   /\ year_link_index' = idx
                   /\ i' = idx + 1
                   /\ found_dash' = FALSE
                   /\ event_text' = <<>>
    /\ UNCHANGED <<ivars, dvars, run, first_events, year_links, events, origin>>

\* lines 176-194: one sibling after the year link
ScanStep ==
    /\ pc = "scan"
    /\ i <= Len(Contents)
    /\ LET st == ScanChild(found_dash, event_text, Contents[i])
       IN  /\ found_dash' = st.found_dash
           /\ event_text' = st.event_text
    /\ i' = i + 1
    /\ UNCHANGED <<ivars, dvars, pc, run, first_events, year_links, link_i, year,
                   year_link_index, events, origin>>

\* lines 196-217: the siblings are exhausted; clean the text, append the record
FinishLink ==
    /\ pc = "scan"
    /\ i > Len(Contents)
    /\ LET recs == EntryRecords(found_dash, event_text, year, month, day)
       IN  /\ events' = events \o recs
           /\ origin' = IF recs = <<>> THEN origin
                        ELSE Append(origin, year_links[link_i])
    /\ pc' = "loop"
    /\ UNCHANGED <<ivars, dvars, run, first_events, year_links, link_i, year,
                   year_link_index, i, found_dash, event_text>>

\* line 219: return events
Return ==
    /\ pc = "loop"
    /\ link_i = Len(year_links)
    /\ pc' = "returned"
    /\ UNCHANGED <<ivars, dvars, run, first_events, year_links, link_i, year,
                   year_link_index, i, found_dash, event_text, events, origin>>

\* the extraction is run a second time on the same page
CallAgain ==
    /\ pc = "returned"
    /\ run = 1
    /\ run' = 2
    /\ first_events' = events
    /\ pc' = "start"
    /\ UNCHANGED <<ivars, dvars, year_links, link_i, year, year_link_index, i,
                   found_dash, event_text, events, origin>>

Next == Call \/ NextLink \/ ScanStep \/ FinishLink \/ Return \/ CallAgain

Spec == Init /\ [][Next]_vars

----------------------------------------------------------------------------
(* The driver: scrape_all_events                                           *)

days_in_month == <<31, 29, 31, 30, 31, 30, 31, 31, 30, 31, 30, 31>>

\* what the site answers for a page: a page with one entry, or no page
SiteAnswers ==
    {Ok(<<PlainEntry>>), [kind |-> "ok", html |-> NoContentHtml]}
    \cup {[kind |-> k, html |-> NoneHtml] : k \in ErrorKinds}

MaxPeriod == 2

\* the answer to the n-th request of a site whose answers repeat
AnswerOf(pattern, n) == pattern[((n - 1) % Len(pattern)) + 1]

InitDriver ==
    /\ site \in SeqsUpTo(SiteAnswers, MaxPeriod)
    /\ current_year = LatestYear
    /\ cursor = 0
    /\ all_events = <<>>
    /\ month = 1
    /\ day = 1
    /\ pc = "scraping"
    /\ response = AnswerOf(site, 1)
    /\ run = 1
    /\ first_events = <<>>
    /\ year_links = <<>>
    /\ link_i = 0
    /\ year = <<>>
    /\ year_link_index = 0
    /\ i = 0
    /\ found_dash = FALSE
    /\ event_text = <<>>
    /\ events = <<>>
    /\ origin = <<>>

\* lines 230-237: one (month, day) of the two loops: parse the day's page,
\* extend all_events, go on to the next day
ScrapeDay ==
    /\ pc = "scraping"
    /\ IF fetch_wikipedia_page(response).raised
       THEN /\ pc' = "aborted"
            /\ UNCHANGED <<month, day, cursor, all_events, response>>
       ELSE /\ all_events' = all_events
                  \o parse_events_from_month_page(response, month, day, current_year)
            /\ cursor' = cursor + 1
            /\ response' = AnswerOf(site, cursor + 2)
            /\ IF day < days_in_month[month]
               THEN /\ day' = day + 1
                    /\ UNCHANGED <<month, pc>>
               ELSE IF month < Len(days_in_month)
               THEN /\ month' = month + 1
                    /\ day' = 1
                    /\ UNCHANGED pc
               ELSE /\ pc' = "collected"
                    /\ UNCHANGED <<month, day>>
    /\ UNCHANGED <<xvarsNoPc, site, current_year>>

\* line 239: return all_events
ReturnAll ==
    /\ pc = "collected"
    /\ pc' = "done"
    /\ UNCHANGED <<ivars, xvarsNoPc, dvars>>

NextDriver == ScrapeDay \/ ReturnAll

SpecDriver == InitDriver /\ [][NextDriver]_vars

----------------------------------------------------------------------------
(* What the claims speak of                                                *)

\* the scan of the entry of the link taken last has looked at every sibling
ScanDone == pc = "scan" /\ i > Len(Contents)

\* the position, among the children of its scope, of the link taken last
OwnIndex == year_links[link_i][2]

Separators == {"ndash", "mdash", "-"}
Whitespace == {" ", "\n"}

\* s is optional whitespace, then a dash, then anything
BeginsWithDash(s) ==
    \E n \in 1..Len(s) :
        /\ s[n] \in Separators
        /\ \A k \in 1..(n - 1) : s[k] \in Whitespace

\* what is left of such an s without the dash and the whitespace around it
AfterDash(s) ==
    LET n == CHOOSE n \in 1..Len(s) :
                 s[n] \in Separators /\ \A k \in 1..(n - 1) : s[k] \in Whitespace
        rest == {m \in (n + 1)..(Len(s) + 1) :
                    \A k \in (n + 1)..(m - 1) : s[k] \in Whitespace}
        m == CHOOSE m \in rest : \A z \in rest : z <= m
    IN  SubSeq(s, m, Len(s))

\* the plain-text siblings after child a that begin with a dash
DashSiblings(contents, a) ==
    {j \in (a + 1)..Len(contents) :
        contents[j].kind = "text" /\ BeginsWithDash(contents[j].text)}

FirstDashSibling(contents, a) ==
    CHOOSE j \in DashSiblings(contents, a) : \A z \in DashSiblings(contents, a) : j <= z

\* the description the entry anchored at child a of contents is to have
Description(contents, a) ==
    LET j == FirstDashSibling(contents, a)
    IN  AfterDash(contents[j].text)
        \o ScopeText(SubSeq(contents, j + 1, Len(contents)))

\* s with its separator, when it begins with one, replaced by d
WithDash(child, d) ==
    IF child.kind = "text" /\ BeginsWithDash(child.text)
    THEN LET n == CHOOSE n \in 1..Len(child.text) :
                      /\ child.text[n] \in Separators
                      /\ \A k \in 1..(n - 1) : child.text[k] \in Whitespace
         IN  [child EXCEPT !.text = [@ EXCEPT ![n] = d]]
    ELSE child

----------------------------------------------------------------------------
(* C10 *)

\* C10: the separator scan of an entry starts at the sibling right after the
\* entry's own year link, also when the scope holds several year links, two of
\* them with the same target and text.
C10_ScanStartsAfterOwnLink ==
    pc = "scan" => year_link_index = OwnIndex

\* the link an entry is scanned from is a child == to the entry's own link,
\* and the first such child of the scope
C10_ScanStartsAfterFirstEqual ==
    pc = "scan" =>
        /\ Contents[year_link_index] = Contents[OwnIndex]
        /\ \A k \in 1..(year_link_index - 1) : Contents[k] # Contents[OwnIndex]

\* the records are emitted in the document order of their links
C10_RecordsInLinkOrder ==
    \A a, b \in 1..Len(origin) :
        a < b => \/ origin[a][1] < origin[b][1]
                 \/ origin[a][1] = origin[b][1] /\ origin[a][2] < origin[b][2]

(* C1 *)

\* C1: once every sibling is scanned, the description collected for an entry
\* with a dash sibling is the remainder of the first plain-text sibling after
\* the entry's link that begins with a dash, followed by the text of every
\* later sibling.
C1_DescriptionCollected ==
    (ScanDone /\ DashSiblings(Contents, OwnIndex) # {}) =>
        /\ found_dash
        /\ event_text = Description(Contents, OwnIndex)

\* the same, for the entries scanned from their own link
C1_DescriptionFromOwnLink ==
    (ScanDone /\ year_link_index = OwnIndex /\ DashSiblings(Contents, OwnIndex) # {}) =>
        /\ found_dash
        /\ event_text = Description(Contents, OwnIndex)

\* once collecting, the scan of an entry never goes back to seeking
C1_NeverBackToSeeking ==
    [][(pc = "scan" /\ found_dash /\ pc' = "scan") => found_dash']_vars

\* a sibling gives the same whichever dash it begins with
C1_DashVariant ==
    (pc = "scan" /\ ~found_dash /\ i <= Len(Contents)) =>
        \A d \in Separators :
            ScanChild(found_dash, event_text, WithDash(Contents[i], d))
                = ScanChild(found_dash, event_text, Contents[i])

(* C6 *)

\* C6: an entry none of whose plain-text siblings after its link begins with a
\* dash ends its scan still seeking, and every record comes from an entry that
\* has such a sibling.
C6_NoDashNoRecord ==
    /\ (ScanDone /\ DashSiblings(Contents, OwnIndex) = {}) => ~found_dash
    /\ \A k \in 1..Len(origin) :
           DashSiblings(Scopes[origin[k][1]], origin[k][2]) # {}

\* the same, for the entries scanned from their own link
C6_NoDashNoRecordFromOwnLink ==
    (ScanDone /\ year_link_index = OwnIndex /\ DashSiblings(Contents, OwnIndex) = {})
        => ~found_dash

(* C2 *)

\* the annotation, in any letter case, is somewhere in name
HasPictured(name) ==
    \E pos \in 1..Len(name) :
        /\ pos + Len(Pictured) - 1 <= Len(name)
        /\ \A k \in 1..Len(Pictured) : ToLower(name[pos + k - 1]) = Pictured[k]

\* C2: no record has a name that contains "(pictured)" in any letter case.
C2_NoPicturedInName ==
    \A k \in 1..Len(events) : ~HasPictured(events[k].name)

(* C9 *)

\* C9: no record's name ends with a colon, an en-dash, an em-dash or a hyphen,
\* or begins or ends with whitespace.
C9_NoTrailingSeparator ==
    \A k \in 1..Len(events) :
        LET name == events[k].name
        IN  /\ name # <<>>
            /\ name[Len(name)] \notin {":", "ndash", "mdash", "-"}
            /\ name[1] \notin Whitespace
            /\ name[Len(name)] \notin Whitespace

\* no record's name begins or ends with whitespace
C9_NoOuterWhitespace ==
    \A k \in 1..Len(events) :
        LET name == events[k].name
        IN  /\ name # <<>>
            /\ name[1] \notin Whitespace
            /\ name[Len(name)] \notin Whitespace

(* C3 *)

DecimalDigits == {"0", "1", "2", "3", "4", "5", "6", "7", "8", "9"}

\* d is YYYY-MM-DD
IsIsoDate(d) ==
    /\ Len(d) = 10
    /\ \A k \in {1, 2, 3, 4, 6, 7, 9, 10} : d[k] \in DecimalDigits
    /\ d[5] = "-"
    /\ d[8] = "-"

\* the number the characters of d before its first hyphen spell
YearOfDate(d) ==
    LET h == CHOOSE h \in 1..Len(d) : d[h] = "-" /\ \A k \in 1..(h - 1) : d[k] # "-"
    IN  ToInt(SubSeq(d, 1, h - 1))

\* C3: every record's date is YYYY-MM-DD with the year in 1..current year.
C3_DateIsIso ==
    \A k \in 1..Len(events) :
        /\ IsIsoDate(events[k].date)
        /\ YearOfDate(events[k].date) \in 1..current_year

\* every record's year is in 1..current year
C3_YearInRange ==
    \A k \in 1..Len(events) : YearOfDate(events[k].date) \in 1..current_year

(* C4 *)

\* the phrases of the recurring-event list, in lower case
ClaimPhrases ==
    {
      <<"i", "n", "d", "e", "p", "e", "n", "d", "e", "n", "c", "e", " ", "d", "a", "y">>,
      <<"n", "a", "t", "i", "o", "n", "a", "l", " ", "d", "a", "y">>,
      <<"p", "u", "b", "l", "i", "c", " ", "d", "o", "m", "a", "i", "n", " ", "d", "a", "y">>,
      <<"s", "o", "l", "e", "m", "n", "i", "t", "y">>,
      <<"h", "o", "l", "i", "d", "a", "y">>,
      <<"o", "b", "s", "e", "r", "v", "a", "n", "c", "e">>,
      <<"d", "a", "y", " ", "o", "f">>,
      <<"f", "e", "a", "s", "t", " ", "o", "f">>,
      <<"m", "e", "m", "o", "r", "i", "a", "l", " ", "d", "a", "y">>,
      <<"r", "e", "m", "e", "m", "b", "r", "a", "n", "c", "e", " ", "d", "a", "y">> }

\* text contains a phrase of the list, in any letter case
HasPhrase(text) ==
    \E ph \in ClaimPhrases :
        \E pos \in 1..(Len(text) - Len(ph) + 1) :
            \A k \in 1..Len(ph) : ToLower(text[pos + k - 1]) = ph[k]

\* C4: no record comes from an entry whose scope text contains a
\* recurring-event phrase, in any letter case and at any position.
C4_NoRecordFromRecurring ==
    \A k \in 1..Len(origin) : ~HasPhrase(ScopeText(Scopes[origin[k][1]]))

\* a call has returned no record for an otherwise well-formed entry whose scope
\* has a phrase, in another letter case than the list's, inside its description
C4_Witness ==
    /\ pc = "returned"
    /\ Len(year_links) = 1
    /\ events = <<>>
    /\ LET c == Scopes[year_links[1][1]]
           a == year_links[1][2]
       IN  /\ DashSiblings(c, a) # {}
           /\ Len(Description(c, a)) >= MinNameLen
           /\ HasPhrase(Description(c, a))
           /\ \A p \in 1..Len(recurring_patterns) :
                  ~SearchExact(recurring_patterns[p], ScopeText(c))

(* C5 *)

\* text contains "(b. " or "(d. ", three or four digits and ")"
HasMarker(text) ==
    \E pos \in 1..Len(text) : \E n \in {3, 4} :
        /\ pos + 4 + n <= Len(text)
        /\ text[pos] = "("
        /\ text[pos + 1] \in {"b", "d"}
        /\ text[pos + 2] = "."
        /\ text[pos + 3] = " "
        /\ \A k \in 1..n : text[pos + 3 + k] \in DecimalDigits
        /\ text[pos + 4 + n] = ")"

\* C5: no record comes from an entry whose scope text contains a birth or a
\* death marker.
C5_NoRecordFromBirthDeath ==
    \A k \in 1..Len(origin) : ~HasMarker(ScopeText(Scopes[origin[k][1]]))

\* a call has returned no record for an otherwise well-formed entry whose scope
\* has a death marker and no recurring-event phrase
C5_Witness ==
    /\ pc = "returned"
    /\ Len(year_links) = 1
    /\ events = <<>>
    /\ LET c == Scopes[year_links[1][1]]
           a == year_links[1][2]
       IN  /\ DashSiblings(c, a) # {}
           /\ Len(Description(c, a)) >= MinNameLen
           /\ HasMarker(ScopeText(c))
           /\ SearchExact(<<"(", "d", ".">>, ScopeText(c))
           /\ ~HasPhrase(ScopeText(c))

(* C7 *)

\* C7: the second run of the extraction on the same page, month, day and year
\* ceiling returns the records the first run returned.
C7_SecondRunSame ==
    (run = 2 /\ pc = "returned") => events = first_events

\* what a run returns is the value, for its page, month, day and year ceiling,
\* of the extraction taken as one function
C7_FunctionOfInputs ==
    pc = "returned" =>
        events = parse_events_from_month_page(response, month, day, current_year)

\* the second run has returned, with several records
C7_Witness ==
    run = 2 /\ pc = "returned" /\ Len(events) >= 2

(* C8 *)

\* the days of each month of a leap year
DaysOf(m) == IF m = 2 THEN 29 ELSE IF m \in {4, 6, 9, 11} THEN 30 ELSE 31

RECURSIVE DaysBefore(_)
DaysBefore(m) == IF m = 1 THEN 0 ELSE DaysBefore(m - 1) + DaysOf(m - 1)

\* the place of (m, d) in the calendar order of the year
DayOfYear(m, d) == DaysBefore(m) + d

\* the (month, day) pairs of the year, in calendar order
Calendar ==
    [n \in 1..DayOfYear(12, 31) |->
        CHOOSE md \in (1..12) \X (1..31) :
            md[2] <= DaysOf(md[1]) /\ DayOfYear(md[1], md[2]) = n]

\* the n-th page asked for is available
Available(n) ==
    LET a == AnswerOf(site, n) IN a.kind = "ok" /\ a.html.has_content

TwoDigits(n) == <<Digits[(n \div 10) + 1], Digits[(n % 10) + 1]>>

\* the record of the one entry of the page of the n-th day of the year
RecordOfDay(n) ==
    [name |-> Apollo,
     date |-> <<"1", "9", "6", "9", "-">> \o TwoDigits(Calendar[n][1])
              \o <<"-">> \o TwoDigits(Calendar[n][2])]

RECURSIVE RecordsUpTo(_)
RecordsUpTo(n) ==
    IF n = 0 THEN <<>>
    ELSE RecordsUpTo(n - 1) \o (IF Available(n) THEN <<RecordOfDay(n)>> ELSE <<>>)

\* C8: whatever the site answers, the run is never aborted, the pages are asked
\* for once each in calendar order, all 366 of them, and the collection
\* returned is, in that order, the records of the pages that were available.
C8_BadPageNeverAborts ==
    /\ pc # "aborted"
    /\ pc = "scraping" =>
          /\ cursor < Len(Calendar)
          /\ <<month, day>> = Calendar[cursor + 1]
    /\ pc \in {"collected", "done"} => cursor = 366
    /\ pc = "done" => all_events = RecordsUpTo(366)

\* the run has returned a collection after a first page that was not found, a
\* second that could not be reached, and pages that were available
C8_Witness ==
    /\ pc = "done"
    /\ AnswerOf(site, 1).kind \in ErrorKinds
    /\ \E n \in 1..cursor : AnswerOf(site, n).kind = "network_error"
    /\ Len(all_events) > 0

=============================================================================
